---- MODULE Spec2Model ----
(***************************************************************************)
(* A model of ,hvec.py: one run of the command-line program, from process  *)
(* start to process exit.  The state is the command line, the file system  *)
(* the run sees, the position of the interpreter in main(), the parsed     *)
(* arguments, the history of subprocess.run calls, the two output streams  *)
(* and the exit status.                                                    *)
(***************************************************************************)
EXTENDS Integers, Sequences, FiniteSets, TLC

VARIABLES sys_argv, fs, pc, args, calls, ffmpeg_cmd, media_info,
          estimates, stdout, stderr, exit_code

vars == <<sys_argv, fs, pc, args, calls, ffmpeg_cmd, media_info,
          estimates, stdout, stderr, exit_code>>

(* Python's None and a value that is not None. *)
None == <<>>
Some(v) == <<v>>

(* A bug: "is not None" in place of truthiness. *)
Truthy_IsNotNone(x) == x # None

(* Truthiness of an optional string: None and "" are both false. *)
Truthy(x) == x # None /\ x[1] # ""

IsIn(x, s) == \E k \in 1..Len(s) : s[k] = x

\* ------------------------------------------------------------------ constants

version == "2.1"

VERSION_HISTORY == "\n,hvec Transcoder v" \o version \o "\n---------------------------------\n..."

ESTIMATED_FPS == 85

\* ------------------------------------------------------------ bounded inputs

(* Durations the prober reports are multiples of half a second up to this. *)
MaxHalfSeconds == 3

Prog == ",hvec.py"

VersionSegs == {<<>>, <<"-v">>, <<"--version">>, <<"--vers">>}
InputSegs == {<<>>, <<"-i", "">>, <<"-i", "movie.mp4">>}
OutputSegs == {<<>>, <<"-o", "">>, <<"--output", "movie.mkv">>}
SubsSegs == {<<>>, <<"-s", "">>, <<"-s", "subs.srt">>}
QuietSegs == {<<>>, <<"-q">>}
LessNoiseSegs == {<<>>, <<"--less-noise">>}

CommandLines ==
  { <<Prog>> \o i \o o \o s \o q \o l \o v :
      i \in InputSegs, o \in OutputSegs, s \in SubsSegs,
      q \in QuietSegs, l \in LessNoiseSegs, v \in VersionSegs }

Files == {"movie.mp4", "subs.srt"}

(* How a child process can end: the executable is not found, it exits     *)
(* non-zero, or it exits zero.                                             *)
ToolOutcomes == {"FileNotFoundError", "CalledProcessError", "ok"}

\* ------------------------------------------------------------------ argparse

EmptyNamespace ==
  [input |-> None, output |-> None, subs |-> None, quiet |-> FALSE,
   less_noise |-> FALSE, version |-> FALSE, error |-> FALSE]

(* parser.parse_args() over the options main() declares; long options may  *)
(* be abbreviated to an unambiguous prefix ("--vers").                     *)
RECURSIVE ParseFrom(_, _, _)
ParseFrom(argv, k, ns) ==
  IF k > Len(argv) THEN ns
  ELSE LET t == argv[k] IN
    CASE t \in {"-i", "--input"} ->
           IF k = Len(argv) THEN [ns EXCEPT !.error = TRUE]
           ELSE ParseFrom(argv, k + 2, [ns EXCEPT !.input = Some(argv[k + 1])])
      [] t \in {"-o", "--output"} ->
           IF k = Len(argv) THEN [ns EXCEPT !.error = TRUE]
           ELSE ParseFrom(argv, k + 2, [ns EXCEPT !.output = Some(argv[k + 1])])
      [] t \in {"-s", "--subs"} ->
           IF k = Len(argv) THEN [ns EXCEPT !.error = TRUE]
           ELSE ParseFrom(argv, k + 2, [ns EXCEPT !.subs = Some(argv[k + 1])])
      [] t \in {"-q", "--quiet"} ->
           ParseFrom(argv, k + 1, [ns EXCEPT !.quiet = TRUE])
      [] t = "--less-noise" ->
           ParseFrom(argv, k + 1, [ns EXCEPT !.less_noise = TRUE])
      [] t \in {"-v", "--version", "--vers"} ->
           ParseFrom(argv, k + 1, [ns EXCEPT !.version = TRUE])
      [] OTHER -> [ns EXCEPT !.error = TRUE]

(* required=True on --input: a command line without it is a usage error.   *)
parse_args(argv) ==
  LET ns == ParseFrom(argv, 2, EmptyNamespace) IN
    IF ns.input = None THEN [ns EXCEPT !.error = TRUE] ELSE ns

\* ------------------------------------------------------------------- helpers

(* os.path.exists: the empty path never exists. *)
exists(p) == p # "" /\ p \in fs

(* A bug: the subtitle file is never looked for. *)
SubtitleMissing_Unchecked(a) == FALSE

(* Line 93. *)
SubtitleMissing(a) == Truthy(a.subs) /\ ~exists(a.subs[1])

(* A finished subprocess.run call. *)
Call(cmd, outcome) == [cmd |-> cmd, outcome |-> outcome]

Exit(code) == /\ exit_code' = Some(code)
              /\ pc' = "exited"

\* ------------------------------------------------------------------- command

(* A bug: the periodic-progress flag is tested before the quiet flag. *)
LoggingFlags_LessNoiseFirst(a) ==
  IF a.less_noise THEN <<"-stats_period", "30">>
  ELSE IF a.quiet THEN <<"-loglevel", "error">>
  ELSE <<>>

(* Lines 99-102. *)
LoggingFlags(a) ==
  IF a.quiet THEN <<"-loglevel", "error">>
  ELSE IF a.less_noise THEN <<"-stats_period", "30">>
  ELSE <<>>

(* Line 104. *)
DecodeStage(a) == <<"-hwaccel", "qsv", "-c:v", "h264_qsv", "-i", a.input[1]>>

(* Line 106. *)
encoding_params ==
  <<"-c:v", "hevc_qsv", "-preset", "medium", "-global_quality", "24", "-c:a", "copy">>

(* A bug: the subtitle branch forgets the subtitle map and the language tag. *)
StreamMapping_NoSubtitleMap(a) ==
  IF Truthy(a.subs)
  THEN <<"-i", a.subs[1], "-map", "0:v:0", "-map", "0:a?">> \o <<"-c:s", "copy">>
  ELSE <<"-map", "0:v:0", "-map", "0:a?">>

(* Lines 108-112. *)
StreamMapping(a) ==
  IF Truthy(a.subs)
  THEN <<"-i", a.subs[1], "-map", "0:v:0", "-map", "0:a", "-map", "1:s">>
       \o <<"-c:s", "copy", "-metadata:s:s:0", "language=eng">>
  ELSE <<"-map", "0:v:0", "-map", "0:a?">>

(* A bug: the encoding parameters are emitted before the stream selection. *)
BuildCommand_ParamsFirst(a) ==
  <<"ffmpeg">> \o LoggingFlags(a) \o DecodeStage(a) \o encoding_params
    \o StreamMapping(a) \o <<a.output[1]>>

(* Lines 97-115 of main(): the encoder's argument list. *)
BuildCommand(a) ==
  <<"ffmpeg">> \o LoggingFlags(a) \o DecodeStage(a) \o StreamMapping(a)
    \o encoding_params \o <<a.output[1]>>

\* ----------------------------------------------------------------- estimator

(* Names bound at module level, and the builtins the program calls. *)
ModuleGlobals ==
  {"argparse", "subprocess", "sys", "os", "json", "math", "argcomplete",
   "__version__", "VERSION_HISTORY", "ESTIMATED_FPS", "main",
   "estimate_transcode_time", "run_ffmpeg_command"}

Builtins == {"print", "next", "float", "int", "map", "divmod", "Exception",
             "FileNotFoundError"}

NameDefined(n) == n \in ModuleGlobals \cup Builtins

(* Decimal strings of the frame counts the prober reports. *)
FrameCounts == {0, 1, ESTIMATED_FPS, 2550, 312205}

isdigit(s) == \E n \in FrameCounts : s = ToString(n)
int(s) == CHOOSE n \in FrameCounts : s = ToString(n)

(* Duration strings as ffprobe prints them; h counts half seconds. *)
DurationStr(h) == ToString(h \div 2) \o (IF h % 2 = 1 THEN ".500000" ELSE ".000000")

FloatOk(s) == s = "0" \/ \E h \in 0..MaxHalfSeconds : s = DurationStr(h)
(* float(s), in half seconds. *)
float(s) == IF s = "0" THEN 0 ELSE CHOOSE h \in 0..MaxHalfSeconds : s = DurationStr(h)

RateNums == {0, 30}
RateDens == {0, 1, 2}
RateStr(n, d) == ToString(n) \o "/" \o ToString(d)

(* map(int, s.split('/')) unpacked into two names: fails unless s is two    *)
(* integers around one slash.                                               *)
RateOk(s) == \E n \in RateNums, d \in RateDens : s = RateStr(n, d)
RateOf(s) == CHOOSE r \in RateNums \X RateDens : s = RateStr(r[1], r[2])

(* math.ceil(a / b) for a >= 0, b > 0. *)
CeilDiv(a, b) == (a + b - 1) \div b

Digit2(n) == IF n < 10 THEN "0" \o ToString(n) ELSE ToString(n)

(* Lines 141-144 as written with divmod: f"{int(hours):02d}:{int(mins):02d}:{int(secs):02d}". *)
FormatEstimate(total_frames) ==
  LET estimated_seconds == total_frames \div ESTIMATED_FPS
      mins0 == estimated_seconds \div 60
      secs == estimated_seconds % 60
      hours == mins0 \div 60
      mins == mins0 % 60
  IN Digit2(hours) \o ":" \o Digit2(mins) \o ":" \o Digit2(secs)

Raise(what) == [raised |-> TRUE, what |-> what, value |-> 0, lines |-> <<>>]
Value(v) == [raised |-> FALSE, what |-> "", value |-> v, lines |-> <<>>]
Printed(lines) == [raised |-> FALSE, what |-> "", value |-> 0, lines |-> lines]

VideoStreams ==
  [codec_type : {"video"},
   nb_frames : {None, Some(""), Some("N/A")} \cup {Some(ToString(n)) : n \in FrameCounts},
   duration : {None, Some("N/A")} \cup {Some(DurationStr(h)) : h \in 0..MaxHalfSeconds},
   avg_frame_rate : {None, Some("30")}
                      \cup {Some(RateStr(n, d)) : n \in RateNums, d \in RateDens}]

AudioStream ==
  [codec_type |-> "audio", nb_frames |-> None, duration |-> None,
   avg_frame_rate |-> Some("0/0")]

Formats == {None, Some([duration |-> None]), Some([duration |-> Some("N/A")]),
            Some([duration |-> Some(DurationStr(MaxHalfSeconds))])}

(* What the JSON probe can write on its standard output. *)
ProbeStdouts ==
  {[json_ok |-> FALSE, streams |-> None, format |-> None]}
  \cup [json_ok : {TRUE}, streams : {None, Some(<<>>), Some(<<AudioStream>>)},
        format : {None, Some([duration |-> None])}]
  \cup [json_ok : {TRUE},
        streams : {Some(<<v>>) : v \in VideoStreams}
                    \cup {Some(<<AudioStream, v>>) : v \in VideoStreams},
        format : Formats]

(* Line 126: the first stream whose codec_type is "video", or None. *)
FirstVideo(streams) ==
  IF \E k \in 1..Len(streams) : streams[k].codec_type = "video"
  THEN Some(streams[CHOOSE k \in 1..Len(streams) :
                      /\ streams[k].codec_type = "video"
                      /\ \A j \in 1..(k - 1) : streams[j].codec_type # "video"])
  ELSE None

(* Lines 131-138: the frame count, or the exception its computation raises. *)
TotalFrames(video_stream, format) ==
  LET total_frames_str == video_stream.nb_frames IN
  IF Truthy(total_frames_str) /\ isdigit(total_frames_str[1])
  THEN Value(int(total_frames_str[1]))
  ELSE IF format = None THEN Raise("'format'")
  ELSE
    LET default == IF format[1].duration = None THEN "0" ELSE format[1].duration[1]
        dstr == IF video_stream.duration = None THEN default
                ELSE video_stream.duration[1]
        rstr == IF video_stream.avg_frame_rate = None THEN "0/1"
                ELSE video_stream.avg_frame_rate[1]
    IN IF ~FloatOk(dstr) THEN Raise("could not convert string to float")
       ELSE IF ~RateOk(rstr) THEN Raise("invalid literal for int() or wrong number of values")
       ELSE LET rate_num == RateOf(rstr)[1]
                rate_den == RateOf(rstr)[2]
            IN IF rate_den # 0
               THEN Value(CeilDiv(float(dstr) * rate_num, 2 * rate_den))
               ELSE Value(0)

(* Lines 140-147. *)
ReportEstimate(total_frames) ==
  IF total_frames > 0 /\ ESTIMATED_FPS > 0
  THEN IF ~NameDefined("divmod") THEN Raise("name 'divmod' is not defined")
       ELSE IF ~NameDefined("divod") THEN Raise("name 'divod' is not defined")
       ELSE Printed(<<"Estimated time to transcode: " \o FormatEstimate(total_frames),
                      "(Based on an estimated " \o ToString(ESTIMATED_FPS)
                        \o " FPS for QSV HEVC encoding on this hardware)">>)
  ELSE Printed(<<"Could not determine video length to provide an estimate.">>)

(* Lines 123-147: the body of the try block, given how the probe ended and  *)
(* what it wrote.                                                           *)
TryEstimate(outcome, out) ==
  IF outcome = "FileNotFoundError" THEN Raise("No such file or directory: 'ffprobe'")
  ELSE IF outcome = "CalledProcessError" THEN Raise("returned non-zero exit status")
  ELSE IF ~out.json_ok THEN Raise("Expecting value")
  ELSE IF out.streams = None THEN Raise("'streams'")
  ELSE LET video_stream == FirstVideo(out.streams[1]) IN
    IF video_stream = None
    THEN Printed(<<"Could not find a video stream to analyze.">>)
    ELSE LET total == TotalFrames(video_stream[1], out.format) IN
      IF total.raised THEN total ELSE ReportEstimate(total.value)

(* Lines 148-149: every Exception ends as one printed line. *)
EstimateLines(outcome, out) ==
  LET r == TryEstimate(outcome, out) IN
    IF r.raised
    THEN <<"Could not analyze video to provide an estimate: " \o r.what>>
    ELSE r.lines

DisplayProbeCmd(input_file) == <<"ffprobe", "-hide_banner", input_file>>

JsonProbeCmd(input_file) ==
  <<"ffprobe", "-v", "quiet", "-print_format", "json", "-show_format",
    "-show_streams", input_file>>

\* ---------------------------------------------------------------------- Init

Init ==
  /\ sys_argv \in CommandLines
  /\ fs \in SUBSET Files
  /\ pc = "start"
  /\ args = EmptyNamespace
  /\ calls = <<>>
  /\ ffmpeg_cmd = <<>>
  /\ media_info = None
  /\ estimates = 0
  /\ stdout = <<>>
  /\ stderr = <<>>
  /\ exit_code = None

\* ------------------------------------------------------------------- actions

(* A bug: the version flag is left to argparse, so it is seen only after   *)
(* the required arguments are checked.                                     *)
VersionCheck_LeftToArgparse ==
  /\ pc = "start"
  /\ pc' = "parse"
  /\ UNCHANGED <<sys_argv, fs, args, calls, ffmpeg_cmd, media_info, estimates,
                 stdout, stderr, exit_code>>

(* main(), lines 38-41: the version flag is looked for in sys.argv itself. *)
VersionCheck ==
  /\ pc = "start"
  /\ IF IsIn("-v", sys_argv) \/ IsIn("--version", sys_argv)
     THEN /\ stdout' = Append(stdout, VERSION_HISTORY)
          /\ Exit(0)
     ELSE /\ pc' = "parse"
          /\ UNCHANGED <<stdout, exit_code>>
  /\ UNCHANGED <<sys_argv, fs, args, calls, ffmpeg_cmd, media_info, estimates, stderr>>

(* main(), lines 44-69: argparse; a usage error exits with status 2. *)
ParseArguments ==
  /\ pc = "parse"
  /\ LET ns == parse_args(sys_argv) IN
       IF ns.error
       THEN /\ stderr' = Append(stderr, "usage: error")
            /\ Exit(2)
            /\ UNCHANGED <<args, stdout>>
       ELSE /\ args' = ns
            /\ stdout' = Append(stdout, "--- hvec Transcoder v" \o version \o " ---")
            /\ pc' = "dispatch"
            /\ UNCHANGED <<stderr, exit_code>>
  /\ UNCHANGED <<sys_argv, fs, calls, ffmpeg_cmd, media_info, estimates>>

(* main(), lines 72-77: info mode, the input must exist. *)
InfoCheckInput ==
  /\ pc = "dispatch"
  /\ ~Truthy(args.output)
  /\ IF ~exists(args.input[1])
     THEN /\ stderr' = Append(stderr, "Error: Input file not found at '" \o args.input[1] \o "'")
          /\ Exit(1)
          /\ UNCHANGED stdout
     ELSE /\ stdout' = Append(stdout, "\n--- Media Information for: " \o args.input[1] \o " ---\n")
          /\ pc' = "display_probe"
          /\ UNCHANGED <<stderr, exit_code>>
  /\ UNCHANGED <<sys_argv, fs, args, calls, ffmpeg_cmd, media_info, estimates>>

(* main(), lines 81-86: what the display probe's end does to the run. *)
DisplayProbeHandlers(outcome) ==
  CASE outcome = "FileNotFoundError" ->
         /\ stderr' = Append(stderr, "Error: 'ffprobe' not found. Is FFmpeg installed correctly?")
         /\ Exit(1)
    [] outcome = "CalledProcessError" ->
         /\ stderr' = Append(stderr, "\nError: ffprobe failed to analyze the file.")
         /\ Exit(1)
    [] OTHER ->
         /\ pc' = "estimate"
         /\ UNCHANGED <<stderr, exit_code>>

(* main(), line 79 with its handlers at 81-86: the probe that prints the    *)
(* media information.                                                       *)
DisplayProbe ==
  /\ pc = "display_probe"
  /\ \E outcome \in ToolOutcomes :
       /\ calls' = Append(calls, Call(DisplayProbeCmd(args.input[1]), outcome))
       /\ DisplayProbeHandlers(outcome)
  /\ UNCHANGED <<sys_argv, fs, args, ffmpeg_cmd, media_info, estimates, stdout>>

NoOutput == [json_ok |-> FALSE, streams |-> None, format |-> None]

(* A bug: a failed probe is run a second time. *)
RunJsonProbe_Retry(outcome) ==
  calls' = IF outcome = "ok"
           THEN Append(calls, Call(JsonProbeCmd(args.input[1]), outcome))
           ELSE calls \o <<Call(JsonProbeCmd(args.input[1]), outcome),
                           Call(JsonProbeCmd(args.input[1]), outcome)>>

(* Line 124: subprocess.run(ffprobe_cmd, ...), once. *)
RunJsonProbe(outcome) ==
  calls' = Append(calls, Call(JsonProbeCmd(args.input[1]), outcome))

(* A bug: the except clause catches ValueError only, so the probe's own     *)
(* failures reach the handlers of main().                                   *)
AfterEstimate_Propagate(outcome, out) ==
  IF outcome = "ok"
  THEN /\ pc' = "info_exit"
       /\ UNCHANGED <<stderr, exit_code>>
  ELSE /\ stderr' = Append(stderr, "\nError: ffprobe failed to analyze the file.")
       /\ Exit(1)

(* Where main() goes on after the call at line 80: the function's except    *)
(* clause lets no Exception out, so always to line 87.                      *)
AfterEstimate(outcome, out) ==
  /\ pc' = "info_exit"
  /\ UNCHANGED <<stderr, exit_code>>

(* main(), line 80: estimate_transcode_time(args.input), lines 119-149.     *)
estimate_transcode_time ==
  /\ pc = "estimate"
  /\ \E outcome \in ToolOutcomes, out \in ProbeStdouts :
       /\ outcome # "ok" => out = NoOutput
       /\ RunJsonProbe(outcome)
       /\ media_info' = IF outcome = "ok" /\ out.json_ok THEN Some(out) ELSE None
       /\ stdout' = Append(stdout, "\n--- Transcode Estimate (for this hardware) ---")
                      \o EstimateLines(outcome, out)
       /\ AfterEstimate(outcome, out)
  /\ estimates' = estimates + 1
  /\ UNCHANGED <<sys_argv, fs, args, ffmpeg_cmd>>

(* main(), line 87. *)
InfoExit ==
  /\ pc = "info_exit"
  /\ Exit(0)
  /\ UNCHANGED <<sys_argv, fs, args, calls, ffmpeg_cmd, media_info, estimates, stdout, stderr>>

(* main(), lines 90-95: transcode mode, input and subtitle must exist. *)
TranscodeCheck ==
  /\ pc = "dispatch"
  /\ Truthy(args.output)
  /\ IF ~exists(args.input[1])
     THEN /\ stderr' = Append(stderr, "Error: Input file not found at '" \o args.input[1] \o "'")
          /\ Exit(1)
     ELSE IF SubtitleMissing(args)
     THEN /\ stderr' = Append(stderr, "Error: Subtitle file not found at '" \o args.subs[1] \o "'")
          /\ Exit(1)
     ELSE /\ pc' = "build"
          /\ UNCHANGED <<stderr, exit_code>>
  /\ UNCHANGED <<sys_argv, fs, args, calls, ffmpeg_cmd, media_info, estimates, stdout>>

(* main(), lines 97-115. *)
BuildStep ==
  /\ pc = "build"
  /\ ffmpeg_cmd' = BuildCommand(args)
  /\ pc' = "run"
  /\ UNCHANGED <<sys_argv, fs, args, calls, media_info, estimates, stdout, stderr, exit_code>>

(* Line 154: arguments holding a space are quoted. The modelled paths hold none. *)
Shown(cmd) == cmd

(* A bug: the encoder's exit status is not checked (check=False). *)
RunHandlers_StatusIgnored(outcome) ==
  IF outcome = "FileNotFoundError"
  THEN /\ stdout' = stdout \o <<"\nExecuting FFmpeg command:">> \o Shown(ffmpeg_cmd)
       /\ stderr' = Append(stderr, "\nError: 'ffmpeg' not found. Is FFmpeg installed and in your PATH?")
       /\ Exit(1)
  ELSE /\ stdout' = stdout \o <<"\nExecuting FFmpeg command:">> \o Shown(ffmpeg_cmd)
                      \o <<"\nSuccessfully created '" \o ffmpeg_cmd[Len(ffmpeg_cmd)] \o "'.">>
       /\ pc' = "returned"
       /\ UNCHANGED <<stderr, exit_code>>

(* Lines 156-166: what the encoder's end does to the run. *)
RunHandlers(outcome) ==
  CASE outcome = "FileNotFoundError" ->
         /\ stdout' = stdout \o <<"\nExecuting FFmpeg command:">> \o Shown(ffmpeg_cmd)
         /\ stderr' = Append(stderr, "\nError: 'ffmpeg' not found. Is FFmpeg installed and in your PATH?")
         /\ Exit(1)
    [] outcome = "CalledProcessError" ->
         /\ stdout' = stdout \o <<"\nExecuting FFmpeg command:">> \o Shown(ffmpeg_cmd)
         /\ stderr' = Append(stderr, "\nError: FFmpeg failed with exit code.")
         /\ Exit(1)
    [] OTHER ->
         /\ stdout' = stdout \o <<"\nExecuting FFmpeg command:">> \o Shown(ffmpeg_cmd)
                        \o <<"\nSuccessfully created '" \o ffmpeg_cmd[Len(ffmpeg_cmd)] \o "'.">>
         /\ pc' = "returned"
         /\ UNCHANGED <<stderr, exit_code>>

(* main(), line 117: run_ffmpeg_command(ffmpeg_cmd), lines 151-166. *)
run_ffmpeg_command ==
  /\ pc = "run"
  /\ \E outcome \in ToolOutcomes :
       /\ calls' = Append(calls, Call(ffmpeg_cmd, outcome))
       /\ RunHandlers(outcome)
  /\ UNCHANGED <<sys_argv, fs, args, ffmpeg_cmd, media_info, estimates>>

(* Lines 168-169: main() returned, the interpreter exits with status 0. *)
ScriptEnd ==
  /\ pc = "returned"
  /\ Exit(0)
  /\ UNCHANGED <<sys_argv, fs, args, calls, ffmpeg_cmd, media_info, estimates, stdout, stderr>>

Next ==
  \/ VersionCheck
  \/ ParseArguments
  \/ InfoCheckInput
  \/ DisplayProbe
  \/ estimate_transcode_time
  \/ InfoExit
  \/ TranscodeCheck
  \/ BuildStep
  \/ run_ffmpeg_command
  \/ ScriptEnd

Spec == Init /\ [][Next]_vars

\* ==================================================================== claims

(* The request as the command line states it. *)
Request == parse_args(sys_argv)

Present(x) == x # <<>>
NonEmpty(x) == x # <<>> /\ x # <<"">>
OnDisk(x) == x[1] \in fs

VersionFlagGiven == IsIn("-v", sys_argv) \/ IsIn("--version", sys_argv)
Exited == pc = "exited"
Parsed == ~VersionFlagGiven /\ ~Request.error

IsProbe(c) == c.cmd[1] = "ffprobe"
IsEncoder(c) == c.cmd[1] = "ffmpeg"
IsDisplayProbe(c) == IsProbe(c) /\ IsIn("-hide_banner", c.cmd)
IsJsonProbe(c) == IsProbe(c) /\ IsIn("json", c.cmd)
Failed(c) == c.outcome # "ok"
Probes == {k \in 1..Len(calls) : IsProbe(calls[k])}
Encodes == {k \in 1..Len(calls) : IsEncoder(calls[k])}
Last(s) == s[Len(s)]
HasPair(c, a, b) == \E k \in 1..(Len(c) - 1) : c[k] = a /\ c[k + 1] = b
Built == ffmpeg_cmd # <<>>

RECURSIVE ValuesAfter(_, _, _)
(* The arguments that follow each occurrence of flag from position k on, in order. *)
ValuesAfter(c, flag, k) ==
  IF k >= Len(c) THEN <<>>
  ELSE IF c[k] = flag THEN <<c[k + 1]>> \o ValuesAfter(c, flag, k + 2)
  ELSE ValuesAfter(c, flag, k + 1)

\* ------------------------------------------------------------------------ C1

(* C1, as stated: without the version flag, a missing input file (either   *)
(* mode) or, in transcode mode, a given subtitle path that does not exist, *)
(* ends the run with status 1 and no external tool is ever run.            *)
C1_AsStated ==
  (Parsed /\ (~OnDisk(Request.input)
              \/ (NonEmpty(Request.output) /\ Present(Request.subs)
                  /\ ~OnDisk(Request.subs))))
    => (calls = <<>> /\ (Exited => exit_code = Some(1)))

(* C1, amended: the same, where the subtitle path counts only when it is   *)
(* non-empty: an empty subtitle path is taken as none given.               *)
C1_PreconditionFailure ==
  (Parsed /\ (~OnDisk(Request.input)
              \/ (NonEmpty(Request.output) /\ NonEmpty(Request.subs)
                  /\ ~OnDisk(Request.subs))))
    => (calls = <<>> /\ (Exited => exit_code = Some(1)))

C1_Witness ==
  /\ Exited /\ Parsed /\ exit_code = Some(1) /\ calls = <<>>
  /\ OnDisk(Request.input) /\ NonEmpty(Request.output)
  /\ NonEmpty(Request.subs) /\ ~OnDisk(Request.subs)

\* ------------------------------------------------------------------------ C2

PreconditionFailure ==
  Parsed /\ (~OnDisk(Request.input)
             \/ (NonEmpty(Request.output) /\ NonEmpty(Request.subs)
                 /\ ~OnDisk(Request.subs)))

(* C2, as stated: at exit the status is 1 whenever some external tool      *)
(* invocation was not found or exited non-zero, or a precondition failed,  *)
(* and it is 0 only when every invocation of the run succeeded.            *)
C2_AsStated ==
  Exited =>
    /\ ((\E k \in 1..Len(calls) : Failed(calls[k])) => exit_code = Some(1))
    /\ (PreconditionFailure => exit_code = Some(1))
    /\ (exit_code = Some(0) => \A k \in 1..Len(calls) : ~Failed(calls[k]))

(* C2, amended: at exit the status is 1 whenever the display probe (info   *)
(* mode) or the encoder (transcode mode) was not found or exited non-zero, *)
(* or a precondition failed; it is 0 only when each of those that ran      *)
(* succeeded; a failure of the estimator's own probe leaves the status 0.  *)
C2_ExitCode ==
  Exited =>
    /\ ((\E k \in 1..Len(calls) : Failed(calls[k]) /\ ~IsJsonProbe(calls[k]))
          => exit_code = Some(1))
    /\ (PreconditionFailure => exit_code = Some(1))
    /\ (exit_code = Some(0)
          => \A k \in 1..Len(calls) : IsJsonProbe(calls[k]) \/ ~Failed(calls[k]))
    /\ ((\E k \in 1..Len(calls) : Failed(calls[k]) /\ IsJsonProbe(calls[k]))
          => exit_code = Some(0))

C2_Witness ==
  /\ Exited /\ exit_code = Some(1)
  /\ Len(calls) = 1 /\ IsEncoder(calls[1]) /\ calls[1].outcome = "CalledProcessError"

\* ------------------------------------------------------------------------ C3

(* C3, as stated: a run executes the prober at most once, computes at most *)
(* one estimate and executes the encoder at most once, in that order, and  *)
(* no invocation is repeated.                                              *)
C3_AsStated ==
  /\ Cardinality(Probes) <= 1
  /\ Cardinality(Encodes) <= 1
  /\ estimates <= 1
  /\ \A i \in Probes, j \in Encodes : i < j
  /\ (estimates = 1 => Probes # {})

(* C3, amended: a run executes the prober at most twice, first the display *)
(* probe and then, inside the one estimate computation, the JSON probe,    *)
(* or else the encoder at most once; no command line is executed twice,    *)
(* and nothing is executed after a failed display probe or encoder run.    *)
C3_Invocations ==
  /\ Cardinality(Probes) <= 2
  /\ Cardinality(Encodes) <= 1
  /\ estimates <= 1
  /\ (Probes = {} \/ Encodes = {})
  /\ \A i, j \in 1..Len(calls) : i < j => calls[i].cmd # calls[j].cmd
  /\ \A i, j \in Probes : i < j => (IsDisplayProbe(calls[i]) /\ ~Failed(calls[i])
                                     /\ IsJsonProbe(calls[j]))
  /\ (Probes # {} => IsDisplayProbe(calls[1]))
  /\ (estimates = 1 <=> Cardinality(Probes) = 2)

C3_Witness ==
  /\ Exited /\ estimates = 1 /\ Len(calls) = 2
  /\ IsDisplayProbe(calls[1]) /\ IsJsonProbe(calls[2]) /\ Failed(calls[2])

\* ------------------------------------------------------------------------ C4

(* The duration the claim describes, from a count of seconds. *)
ClaimedHMS(sec) ==
  Digit2(sec \div 3600) \o ":" \o Digit2((sec \div 60) % 60) \o ":" \o Digit2(sec % 60)

ExplicitFrames ==
  LET v == FirstVideo(media_info[1].streams[1]) IN int(v[1].nb_frames[1])

HasExplicitFrames ==
  /\ media_info # None
  /\ media_info[1].streams # None
  /\ FirstVideo(media_info[1].streams[1]) # None
  /\ LET f == FirstVideo(media_info[1].streams[1])[1].nb_frames IN
       NonEmpty(f) /\ isdigit(f[1]) /\ int(f[1]) > 0

(* C4: in info mode, when the first video stream reports an explicit frame *)
(* count f > 0, the estimator prints floor(f/85) seconds as zero-padded    *)
(* HH:MM:SS (2550 frames print 00:00:30).                                  *)
C4_EstimatePrinted ==
  (pc \in {"info_exit", "exited"} /\ HasExplicitFrames)
    => IsIn("Estimated time to transcode: " \o ClaimedHMS(ExplicitFrames \div 85), stdout)

\* ------------------------------------------------------------------------ C5

(* C5: the built command's logging flags: quiet gives '-loglevel error'    *)
(* and no '-stats_period', also under --less-noise; --less-noise alone     *)
(* gives '-stats_period 30' and no '-loglevel'; neither gives neither.     *)
C5_LoggingFlags ==
  Built =>
    /\ (Request.quiet
          => HasPair(ffmpeg_cmd, "-loglevel", "error") /\ ~IsIn("-stats_period", ffmpeg_cmd))
    /\ ((~Request.quiet /\ Request.less_noise)
          => HasPair(ffmpeg_cmd, "-stats_period", "30") /\ ~IsIn("-loglevel", ffmpeg_cmd))
    /\ ((~Request.quiet /\ ~Request.less_noise)
          => ~IsIn("-stats_period", ffmpeg_cmd) /\ ~IsIn("-loglevel", ffmpeg_cmd))

C5_Witness ==
  /\ pc = "run" /\ Built /\ Request.quiet /\ Request.less_noise
  /\ HasPair(ffmpeg_cmd, "-loglevel", "error")

\* ------------------------------------------------------------------------ C6

WithSubtitleShape(sub) ==
  /\ ValuesAfter(ffmpeg_cmd, "-i", 1) = <<Request.input[1], sub>>
  /\ ValuesAfter(ffmpeg_cmd, "-map", 1) = <<"0:v:0", "0:a", "1:s">>
  /\ \E k \in 1..(Len(ffmpeg_cmd) - 5) :
       SubSeq(ffmpeg_cmd, k, k + 5)
         = <<"-map", "1:s", "-c:s", "copy", "-metadata:s:s:0", "language=eng">>

WithoutSubtitleShape ==
  /\ ValuesAfter(ffmpeg_cmd, "-i", 1) = <<Request.input[1]>>
  /\ ValuesAfter(ffmpeg_cmd, "-map", 1) = <<"0:v:0", "0:a?">>
  /\ ~IsIn("-c:s", ffmpeg_cmd)
  /\ ~IsIn("-metadata:s:s:0", ffmpeg_cmd)
  /\ ~IsIn("1:s", ffmpeg_cmd)

(* C6, as stated: with a subtitle path supplied the command has the        *)
(* subtitle file as second input and maps exactly 0:v:0, 0:a, 1:s, then    *)
(* '-c:s copy' and '-metadata:s:s:0 language=eng'; with none supplied it   *)
(* maps exactly 0:v:0 and 0:a? and has no subtitle directive.              *)
C6_AsStated ==
  Built =>
    /\ (Present(Request.subs) => WithSubtitleShape(Request.subs[1]))
    /\ (~Present(Request.subs) => WithoutSubtitleShape)

(* C6, amended: the same, where an empty subtitle path counts as none      *)
(* supplied.                                                               *)
C6_StreamMapping ==
  Built =>
    /\ (NonEmpty(Request.subs) => WithSubtitleShape(Request.subs[1]))
    /\ (~NonEmpty(Request.subs) => WithoutSubtitleShape)

C6_Witness ==
  /\ pc = "run" /\ Built /\ NonEmpty(Request.subs)
  /\ ValuesAfter(ffmpeg_cmd, "-map", 1) = <<"0:v:0", "0:a", "1:s">>

\* ------------------------------------------------------------------------ C7

(* C7: with -v or --version on the command line the run prints the version *)
(* history and exits 0 at once: nothing is parsed, no file is looked for,  *)
(* nothing is reported as an error and no external tool is run.            *)
C7_VersionFirst ==
  VersionFlagGiven =>
    /\ pc \in {"start", "exited"}
    /\ args = EmptyNamespace
    /\ calls = <<>>
    /\ stderr = <<>>
    /\ (Exited => exit_code = Some(0) /\ stdout = <<VERSION_HISTORY>>)

C7_Witness ==
  /\ Exited /\ VersionFlagGiven /\ Request.error
  /\ exit_code = Some(0) /\ stdout = <<VERSION_HISTORY>>

\* ------------------------------------------------------------------------ C8

ModeShape(transcode) ==
  /\ (~transcode =>
        /\ Encodes = {}
        /\ ~Built
        /\ ((Exited /\ Cardinality(Probes) >= 1 /\ ~Failed(calls[1]))
              => exit_code = Some(0)))
  /\ (transcode =>
        /\ Probes = {}
        /\ (Encodes # {} =>
              /\ OnDisk(Request.input)
              /\ (NonEmpty(Request.subs) => OnDisk(Request.subs))
              /\ calls = <<Call(ffmpeg_cmd, calls[1].outcome)>>
              /\ Last(ffmpeg_cmd) = Request.output[1])
        /\ ((Exited /\ OnDisk(Request.input)
               /\ (NonEmpty(Request.subs) => OnDisk(Request.subs)))
              => Cardinality(Encodes) = 1))

(* C8, as stated: an absent output path is info mode, where the encoder is *)
(* never run and a successful run exits 0; a present output path is        *)
(* transcode mode, where input and subtitle are validated, the command is  *)
(* built and the encoder is run, and the prober is never run.              *)
C8_AsStated == Parsed => ModeShape(Present(Request.output))

(* C8, amended: the same, where the mode is transcode exactly when the     *)
(* output path is non-empty; an absent or empty output path is info mode.  *)
C8_Mode == Parsed => ModeShape(NonEmpty(Request.output))

C8_Witness ==
  /\ Exited /\ Parsed /\ NonEmpty(Request.output) /\ NonEmpty(Request.subs)
  /\ Len(calls) = 1 /\ IsEncoder(calls[1]) /\ exit_code = Some(0)

\* ------------------------------------------------------------------------ C9

(* C9: the built command is, in this order: the executable, the optional   *)
(* logging flag, the hardware-decode flags with '-i <input>', the optional *)
(* '-i <subs>', the stream selection, the encoding parameters and the      *)
(* output path; every '-map' precedes the encoding parameters and the last *)
(* argument is the output path.                                            *)
C9_ComponentOrder ==
  Built =>
    LET c == ffmpeg_cmd
        n == Len(c)
        enc == <<"-c:v", "hevc_qsv", "-preset", "medium", "-global_quality", "24",
                 "-c:a", "copy">>
        hw == <<"-hwaccel", "qsv", "-c:v", "h264_qsv", "-i", Request.input[1]>>
    IN /\ c[1] = "ffmpeg"
       /\ c[n] = Request.output[1]
       /\ SubSeq(c, n - 8, n - 1) = enc
       /\ \A k \in 1..n : c[k] = "-map" => k < n - 8
       /\ \E lg \in {<<>>, <<"-loglevel", "error">>, <<"-stats_period", "30">>},
             sb \in {<<>>} \cup (IF Present(Request.subs)
                                  THEN {<<"-i", Request.subs[1]>>} ELSE {}) :
            LET pre == <<"ffmpeg">> \o lg \o hw \o sb IN
              /\ Len(pre) < n - 8
              /\ SubSeq(c, 1, Len(pre)) = pre
              /\ c[Len(pre) + 1] = "-map"
              /\ \A k \in 1..Len(pre) : c[k] # "-map"

C9_Witness ==
  /\ pc = "run" /\ Built /\ Request.quiet /\ NonEmpty(Request.subs)
  /\ Last(ffmpeg_cmd) = "movie.mkv"

\* ----------------------------------------------------------------------- C10

AnalyzePrefix == "Could not analyze video to provide an estimate: "

CannotEstimate ==
  {"Could not find a video stream to analyze.",
   "Could not determine video length to provide an estimate."}
  \cup {AnalyzePrefix \o w :
          w \in {"No such file or directory: 'ffprobe'", "returned non-zero exit status",
                 "Expecting value", "'streams'", "'format'",
                 "could not convert string to float",
                 "invalid literal for int() or wrong number of values",
                 "name 'divod' is not defined"}}

BasedOnLine ==
  "(Based on an estimated 85 FPS for QSV HEVC encoding on this hardware)"

DisplayProbeSucceeded ==
  Len(calls) >= 1 /\ IsDisplayProbe(calls[1]) /\ ~Failed(calls[1])

ZeroDenominator ==
  /\ media_info # None
  /\ media_info[1].streams # None
  /\ media_info[1].format # None
  /\ FirstVideo(media_info[1].streams[1]) # None
  /\ LET v == FirstVideo(media_info[1].streams[1])[1] IN
       /\ v.nb_frames = None
       /\ v.duration = Some(DurationStr(MaxHalfSeconds))
       /\ v.avg_frame_rate = Some("30/0")

(* C10: in info mode, after a successful display probe, every failure of   *)
(* the estimate (probe not found or failed, no video stream, unparsable    *)
(* rate or duration, zero denominator, any exception) ends as a printed    *)
(* cannot-estimate line: nothing is written to the error stream, nothing   *)
(* divides by zero and the run exits 0.                                    *)
C10_EstimateNeverAborts ==
  (DisplayProbeSucceeded /\ pc \in {"info_exit", "exited"}) =>
    /\ estimates = 1
    /\ stderr = <<>>
    /\ (Exited => exit_code = Some(0))
    /\ Last(stdout) \in CannotEstimate \cup {BasedOnLine}
    /\ (Failed(calls[2]) => Last(stdout) \in CannotEstimate)
    /\ (media_info = None => Last(stdout) \in CannotEstimate)
    /\ ((media_info # None /\ media_info[1].streams # None
          /\ FirstVideo(media_info[1].streams[1]) = None)
          => Last(stdout) = "Could not find a video stream to analyze.")
    /\ (ZeroDenominator
          => Last(stdout) = "Could not determine video length to provide an estimate.")
    /\ ~IsIn(AnalyzePrefix \o "division by zero", stdout)

C10_Witness ==
  /\ Exited /\ DisplayProbeSucceeded /\ ZeroDenominator /\ exit_code = Some(0)
  /\ Last(stdout) = "Could not determine video length to provide an estimate."
====
